---- MODULE Spec2Model ----
(***************************************************************************)
(* Model of the Documentation-Hub-Website page generator (main.py,         *)
(* utils.py).  Python strings are sequences of one-character strings, so   *)
(* that strip, split, join, find and replace are computed, not assumed.    *)
(* A YAML value is a tagged record: a string, an integer, a boolean, null  *)
(* or a nested map (a function from key strings to values).                *)
(***************************************************************************)
EXTENDS Integers, Sequences, FiniteSets, TLC

VARIABLES
    \* ---- direct calls of the utils.py functions (SpecUtils) ----
    data,        \* the nested map handed to load_keys / get_actual_content
    keys,        \* result of the last load_keys call
    key,         \* key argument of the last get_actual_content call
    fallback,    \* fallback argument of the last get_actual_content call
    result,      \* its return value
    op,          \* which function was called last
    \* ---- one run of main.py (Spec) ----
    pc,                     \* position in the __main__ block
    lang_dir,               \* lang/: file name -> parsed YAML document
    env_yml,                \* parsed env.yml, or Missing
    files,                  \* working directory: HTML file name -> contents
    LANG_LIST,
    DATA_I18N,
    DATA_I18N_TRKEYS,
    DATA_ENV,
    DATA_ENV_KEYS,
    HTML_COPIED_FILE_NAME,
    user_input,             \* the line typed at the language prompt
    lang_file,
    loop_i,                 \* index of the next key in the running for loop
    run_no,                 \* how many times main() has been entered
    run_start,              \* contents of the output file when main() was entered
    run_writes,             \* writes done by replace_text_in_file since then
    template_parts,         \* the pieces the template was written from
    exit_status

utilVars == <<data, keys, key, fallback, result, op>>
runVars  == <<pc, lang_dir, env_yml, files, LANG_LIST, DATA_I18N,
              DATA_I18N_TRKEYS, DATA_ENV, DATA_ENV_KEYS,
              HTML_COPIED_FILE_NAME, user_input, lang_file, loop_i, run_no,
              run_start,
              run_writes, template_parts, exit_status>>
vars == <<utilVars, runVars>>

(***************************************************************************)
(* Python str primitives                                                   *)
(***************************************************************************)

\* Characters in code point order (Python compares strings by code point).
CharOrder == <<" ", "'", ",", ".", "0", "1", "2", "7", "8", ":", "B", "F",
               "H", "L", "M", "N", "O", "S", "T", "X", "Y", "a", "b", "d",
               "e", "g", "h", "i", "k", "l", "m", "n", "o", "p", "r", "s",
               "t", "u", "v", "x", "y", "{", "}">>

Ord(c) == CHOOSE i \in 1..Len(CharOrder) : CharOrder[i] = c

\* s < t for Python strings
RECURSIVE StrLess(_, _)
StrLess(s, t) ==
    IF t = <<>> THEN FALSE
    ELSE IF s = <<>> THEN TRUE
    ELSE IF Head(s) = Head(t) THEN StrLess(Tail(s), Tail(t))
    ELSE Ord(Head(s)) < Ord(Head(t))

\* str.lstrip(chars) / str.rstrip(chars) / str.strip(chars)
RECURSIVE LStripChars(_, _)
LStripChars(s, cs) ==
    IF s # <<>> /\ Head(s) \in cs THEN LStripChars(Tail(s), cs) ELSE s

RECURSIVE RStripChars(_, _)
RStripChars(s, cs) ==
    IF s # <<>> /\ s[Len(s)] \in cs
    THEN RStripChars(SubSeq(s, 1, Len(s) - 1), cs) ELSE s

StripChars(s, cs) == RStripChars(LStripChars(s, cs), cs)

\* str.strip(): surrounding whitespace
strip(s) == StripChars(s, {" "})

\* str.split(sep) for a one-character separator: empty parts are kept
RECURSIVE SplitAcc(_, _, _, _)
SplitAcc(s, sep, cur, acc) ==
    IF s = <<>> THEN Append(acc, cur)
    ELSE IF Head(s) = sep THEN SplitAcc(Tail(s), sep, <<>>, Append(acc, cur))
    ELSE SplitAcc(Tail(s), sep, Append(cur, Head(s)), acc)

split(s, sep) == SplitAcc(s, sep, <<>>, <<>>)

\* sep.join(parts)
RECURSIVE join(_, _)
join(parts, sep) ==
    IF parts = <<>> THEN <<>>
    ELSE IF Len(parts) = 1 THEN parts[1]
    ELSE parts[1] \o sep \o join(Tail(parts), sep)

\* s.startswith(p)
StartsWith(s, p) == Len(p) <= Len(s) /\ SubSeq(s, 1, Len(p)) = p

\* `p in s` for strings
RECURSIVE Occurs(_, _)
Occurs(p, s) ==
    IF StartsWith(s, p) THEN TRUE
    ELSE IF s = <<>> THEN FALSE
    ELSE Occurs(p, Tail(s))

\* s.find(c) for one character, 0-based, -1 when absent
RECURSIVE FindFrom(_, _, _)
FindFrom(s, c, i) ==
    IF i > Len(s) THEN -1
    ELSE IF s[i] = c THEN i - 1
    ELSE FindFrom(s, c, i + 1)

find(s, c) == FindFrom(s, c, 1)

\* s.rfind(c), 0-based, -1 when absent
RECURSIVE RFindFrom(_, _, _)
RFindFrom(s, c, i) ==
    IF i < 1 THEN -1
    ELSE IF s[i] = c THEN i - 1
    ELSE RFindFrom(s, c, i - 1)

rfind(s, c) == RFindFrom(s, c, Len(s))

\* str.lower()
LowerChar(c) ==
    CASE c = "L" -> "l"
      [] c = "M" -> "m"
      [] c = "Y" -> "y"
      [] c = "H" -> "h"
      [] c = "T" -> "t"
      [] OTHER   -> c

lower(s) == [i \in DOMAIN s |-> LowerChar(s[i])]

\* pathlib: Path(name).suffix, the last dot of the name and what follows,
\* empty when the only dot leads or ends the name
PathSuffix(name) ==
    LET i == rfind(name, ".")
    IN  IF 0 < i /\ i < Len(name) - 1 THEN SubSeq(name, i + 1, Len(name))
        ELSE <<>>

\* s.replace(old, new), old non-empty: left to right, non-overlapping
RECURSIVE replace(_, _, _)
replace(s, old, new) ==
    IF s = <<>> THEN <<>>
    ELSE IF StartsWith(s, old)
         THEN new \o replace(SubSeq(s, Len(old) + 1, Len(s)), old, new)
         ELSE <<Head(s)>> \o replace(Tail(s), old, new)

\* decimal digits of a natural number
Digit(n) == <<"0", "1", "2", "3", "4", "5", "6", "7", "8", "9">>[n + 1]

RECURSIVE IntStr(_)
IntStr(n) == IF n < 10 THEN <<Digit(n)>>
             ELSE IntStr(n \div 10) \o <<Digit(n % 10)>>

(***************************************************************************)
(* YAML values                                                             *)
(***************************************************************************)

StrV(s)  == [tag |-> "str", val |-> s]
IntV(n)  == [tag |-> "int", val |-> n]
BoolV(b) == [tag |-> "bool", val |-> b]
NoneV    == [tag |-> "null", val |-> 0]
MapV(f)  == [tag |-> "map", val |-> f]

\* isinstance(v, dict)
IsDict(v) == v.tag = "map"

\* The keys of a dict as a sequence.  A function has no insertion order; the
\* sequence lists the keys in sorted order, one of the orders a YAML file
\* can give them.
RECURSIVE SortStrings(_)
SortStrings(S) ==
    IF S = {} THEN <<>>
    ELSE LET m == CHOOSE x \in S : \A y \in S \ {x} : StrLess(x, y)
         IN  <<m>> \o SortStrings(S \ {m})

DictKeys(f) == SortStrings(DOMAIN f)

\* repr() of a value, as str(dict) prints its keys and values
RECURSIVE PyRepr(_)
RECURSIVE ReprItems(_, _)
ReprItems(f, ks) ==
    IF ks = <<>> THEN <<>>
    ELSE <<"'">> \o ks[1] \o <<"'", ":", " ">> \o PyRepr(f[ks[1]])
         \o (IF Len(ks) > 1 THEN <<",", " ">> ELSE <<>>)
         \o ReprItems(f, Tail(ks))

PyRepr(v) ==
    CASE v.tag = "str"  -> <<"'">> \o v.val \o <<"'">>
      [] v.tag = "int"  -> IntStr(v.val)
      [] v.tag = "bool" -> IF v.val THEN <<"T", "r", "u", "e">>
                           ELSE <<"F", "a", "l", "s", "e">>
      [] v.tag = "null" -> <<"N", "o", "n", "e">>
      [] v.tag = "map"  -> <<"{">> \o ReprItems(v.val, DictKeys(v.val)) \o <<"}">>

\* str() of a value that is not a string
PyStr(v) == PyRepr(v)

(***************************************************************************)
(* utils.py                                                                *)
(***************************************************************************)

\* list comprehension of split_key_by_dot: [part.strip() for part in ... if part.strip()]
RECURSIVE StripParts(_)
StripParts(parts) ==
    IF parts = <<>> THEN <<>>
    ELSE IF strip(parts[1]) # <<>>
         THEN <<strip(parts[1])>> \o StripParts(Tail(parts))
         ELSE StripParts(Tail(parts))

split_key_by_dot(k) ==
    IF k = <<>> THEN <<>>
    ELSE IF strip(k) = <<>> THEN <<>>
    ELSE StripParts(split(strip(k), "."))

\* merge_args_to_key(*args): every argument is a string here
RECURSIVE MergeParts(_)
MergeParts(args) ==
    IF args = <<>> THEN <<>>
    ELSE LET part == StripChars(strip(args[1]), {"."})
         IN  IF part = <<>> THEN MergeParts(Tail(args))
             ELSE <<part>> \o MergeParts(Tail(args))

merge_args_to_key(args) == join(MergeParts(args), <<".">>)

get_template_text(mode, k) ==
    IF mode = "i18n" THEN <<"i", "1", "8", "n", ":">> \o k
    ELSE <<"e", "n", "v", ":">> \o k

\* get_actual_content without the `data is None` branch
RECURSIVE Walk_null_as_text(_, _, _)
Walk_null_as_text(args, d, fb) ==
    IF args = <<>>
    THEN IF d.tag = "str" THEN d.val ELSE PyStr(d)
    ELSE IF IsDict(d) /\ args[1] \in DOMAIN d.val
         THEN Walk_null_as_text(Tail(args), d.val[args[1]], fb)
         ELSE fb

\* the for loop of get_actual_content over the segments
RECURSIVE Walk(_, _, _)
Walk(args, d, fb) ==
    IF args = <<>>
    THEN IF d.tag = "str" THEN d.val
         ELSE IF d.tag = "null" THEN fb
         ELSE PyStr(d)
    ELSE IF IsDict(d) /\ args[1] \in DOMAIN d.val
         THEN Walk(Tail(args), d.val[args[1]], fb)
         ELSE fb

get_actual_content(k, d, fb) == Walk(split_key_by_dot(k), d, fb)

\* load_keys, lines 171-177: the truthy path segments, merged
RECURSIVE TruthyParts(_)
TruthyParts(path) ==
    IF path = <<>> THEN <<>>
    ELSE IF path[1] # <<>> THEN <<path[1]>> \o TruthyParts(Tail(path))
    ELSE TruthyParts(Tail(path))

LeafKey(path) == merge_args_to_key(TruthyParts(path))

\* load_keys emitting a key only for a truthy leaf (`elif v:`)
RECURSIVE ItemsLoop_truthy_leaves(_, _, _, _)
ItemsLoop_truthy_leaves(key_path, f, ks, st) ==
    IF ks = <<>> THEN st
    ELSE LET new_key_path == Append(key_path, ks[1])
             v == f[ks[1]]
         IN  IF IsDict(v)
             THEN ItemsLoop_truthy_leaves(key_path, f, Tail(ks),
                            <<Append(st[1], <<new_key_path, v>>), st[2]>>)
             ELSE IF v \in {StrV(<<>>), IntV(0), BoolV(FALSE), NoneV}
             THEN ItemsLoop_truthy_leaves(key_path, f, Tail(ks), st)
             ELSE ItemsLoop_truthy_leaves(key_path, f, Tail(ks),
                            <<st[1], Append(st[2], LeafKey(new_key_path))>>)

\* load_keys, lines 165-178: one pass of `for k, v in key_data.items()`;
\* st is <<stack, keys>>
RECURSIVE ItemsLoop(_, _, _, _)
ItemsLoop(key_path, f, ks, st) ==
    IF ks = <<>> THEN st
    ELSE LET new_key_path == Append(key_path, ks[1])
             v == f[ks[1]]
         IN  IF IsDict(v)
             THEN ItemsLoop(key_path, f, Tail(ks),
                            <<Append(st[1], <<new_key_path, v>>), st[2]>>)
             ELSE ItemsLoop(key_path, f, Tail(ks),
                            <<st[1], Append(st[2], LeafKey(new_key_path))>>)

\* load_keys, lines 163-164: `while stack: key_path, key_data = stack.pop()`
RECURSIVE StackLoop(_, _)
StackLoop(stack, ks) ==
    IF stack = <<>> THEN ks
    ELSE LET top == stack[Len(stack)]
             st  == ItemsLoop(top[1], top[2].val, DictKeys(top[2].val),
                              <<SubSeq(stack, 1, Len(stack) - 1), ks>>)
         IN  StackLoop(st[1], st[2])

\* load_keys, lines 179-184: first occurrences only
RECURSIVE Unique(_, _)
Unique(ks, seen) ==
    IF ks = <<>> THEN <<>>
    ELSE IF ks[1] \in seen THEN Unique(Tail(ks), seen)
    ELSE <<ks[1]>> \o Unique(Tail(ks), seen \cup {ks[1]})

\* list.sort() of a list of strings
RECURSIVE InsertSorted(_, _)
InsertSorted(x, s) ==
    IF s = <<>> THEN <<x>>
    ELSE IF StrLess(x, s[1]) THEN <<x>> \o s
    ELSE <<s[1]>> \o InsertSorted(x, Tail(s))

RECURSIVE list_sort(_)
list_sort(s) == IF s = <<>> THEN <<>> ELSE InsertSorted(s[1], list_sort(Tail(s)))

load_keys(d) == list_sort(Unique(StackLoop(<<<< <<>>, d >>>>, <<>>), {}))

\* get_string_removed_dot_and_after
get_string_removed_dot_and_after(s) ==
    IF find(s, ".") <= 0 THEN <<>> ELSE SubSeq(s, 1, find(s, "."))

(***************************************************************************)
(* Inputs of the direct calls                                              *)
(***************************************************************************)

\* at most this many entries in the top-level map
MaxEntries == 2

s_a   == <<"a">>
s_b   == <<"b">>
s_ab  == <<"a", ".", "b">>
s_sa  == <<" ", "a">>
s_X   == <<"X">>
s_Y   == <<"Y">>
s_FB  == <<"F", "B">>

ScalarLeaves == {StrV(s_X), StrV(<<>>), IntV(0), BoolV(FALSE), NoneV}

\* nested maps: empty, or one entry under "b"
InnerLeaves == {StrV(s_Y), IntV(0), NoneV}

InnerMaps == {MapV(<<>>)} \cup {MapV([k \in {s_b} |-> v]) : v \in InnerLeaves}

TopKeys == {s_a, s_sa, s_ab, <<>>}

TopMaps ==
    {MapV(f) : f \in UNION {[D -> ScalarLeaves \cup InnerMaps] :
                              D \in {E \in SUBSET TopKeys : Cardinality(E) <= MaxEntries}}}

ArgKeys == {<<>>, <<" ">>, <<".", " ", ".">>, s_a, s_ab, s_sa,
            <<"a", ".", "b", ".", "b">>, <<" ", "a", " ", ".", " ", "b">>}

Fallbacks == {s_FB, get_template_text("env", s_a)}

Range(s) == {s[i] : i \in DOMAIN s}

(***************************************************************************)
(* Direct calls of load_keys and get_actual_content on one map             *)
(***************************************************************************)

NotRunning ==
    /\ pc = "off"
    /\ lang_dir = <<>>
    /\ env_yml = NoneV
    /\ files = <<>>
    /\ LANG_LIST = <<>>
    /\ DATA_I18N = <<>>
    /\ DATA_I18N_TRKEYS = <<>>
    /\ DATA_ENV = NoneV
    /\ DATA_ENV_KEYS = <<>>
    /\ HTML_COPIED_FILE_NAME = <<>>
    /\ user_input = <<>>
    /\ lang_file = <<>>
    /\ loop_i = 0
    /\ run_no = 0
    /\ run_start = <<>>
    /\ run_writes = 0
    /\ template_parts = <<>>
    /\ exit_status = 0

UtilsInit ==
    /\ data \in TopMaps
    /\ keys = <<>>
    /\ key = <<>>
    /\ fallback = <<>>
    /\ result = <<>>
    /\ op = "none"
    /\ NotRunning

CallLoadKeys ==
    /\ keys' = load_keys(data)
    /\ op' = "load_keys"
    /\ UNCHANGED <<data, key, fallback, result, runVars>>

CallGetActualContent ==
    \E k \in ArgKeys \cup Range(keys), fb \in Fallbacks :
        /\ key' = k
        /\ fallback' = fb
        /\ result' = get_actual_content(k, data, fb)
        /\ op' = "get_actual_content"
        /\ UNCHANGED <<data, keys, runVars>>

UtilsNext == CallLoadKeys \/ CallGetActualContent

SpecUtils == UtilsInit /\ [][UtilsNext]_vars

(***************************************************************************)
(* One run of main.py: inputs                                              *)
(***************************************************************************)

\* at most this many pieces (placeholder tokens or plain text) in the template
MaxParts == 2

\* main() is entered at most this many times on the same output file
MaxRuns == 2

HTML_TEMPLATE_FILE_NAME ==
    <<"i", "n", "d", "e", "x", ".", "t", "e", "m", "p", "l", "a", "t", "e",
      ".", "h", "t", "m", "l">>

s_template == <<"t", "e", "m", "p", "l", "a", "t", "e">>
s_html     == <<"h", "t", "m", "l">>
index_html == <<"i", "n", "d", "e", "x", ".", "h", "t", "m", "l">>

en_yml       == <<"e", "n", ".", "y", "m", "l">>
template_YML == <<"t", "e", "m", "p", "l", "a", "t", "e", ".", "Y", "M", "L">>
a_txt        == <<"a", ".", "t", "x", "t">>

k_t  == <<"t">>
k_t2 == <<"t", "2">>
k_g  == <<"g">>
k_k  == <<"k">>

\* env.yml does not exist
Missing == [tag |-> "missing", val |-> 0]

EnvDocs ==
    { Missing,
      MapV(<<>>),
      MapV(k_t :> StrV(<<"S">>)),
      MapV(k_t :> StrV(<<"S">>) @@ k_t2 :> StrV(<<"O">>)),
      MapV(k_t :> NoneV @@ k_t2 :> StrV(<<"O">>)) }

\* documents en.yml can hold; NoneV is an empty file
EnDocs ==
    { MapV(k_g :> StrV(<<"H">>)),
      MapV(k_g :> StrV(<<"H">>) @@ k_k :> StrV(get_template_text("env", k_t))),
      MapV(<<>>),
      NoneV }

LangDirs ==
    {en @@ tp @@ tx :
        en \in {<<>>} \cup {en_yml :> d : d \in EnDocs},
        tp \in {<<>>, template_YML :> MapV(k_g :> StrV(<<"H">>))},
        tx \in {<<>>, a_txt :> NoneV}}

UserInputs == {en_yml, template_YML, a_txt}

Piece(ns, k) == [ns |-> ns, key |-> k]

Pieces == {Piece("env", k_t), Piece("env", k_t2), Piece("i18n", k_g),
           Piece("i18n", k_k), Piece("text", <<"x">>)}

PieceText(p) == IF p.ns = "text" THEN p.key ELSE get_template_text(p.ns, p.key)

RECURSIVE Flatten(_)
Flatten(parts) ==
    IF parts = <<>> THEN <<>> ELSE PieceText(parts[1]) \o Flatten(Tail(parts))

Templates == UNION {[1..n -> Pieces] : n \in 0..MaxParts}

(***************************************************************************)
(* utils.py and main.py: the functions that read the registry or the files *)
(***************************************************************************)

\* get_languages: the names with a YAML suffix, sorted
get_languages(dir) ==
    list_sort(SortStrings({n \in DOMAIN dir :
                 lower(PathSuffix(n)) \in {<<".", "y", "m", "l">>,
                                           <<".", "y", "a", "m", "l">>}}))

\* load_data raises unless the file exists and parses to a non-null document
LoadFails(doc) == doc = Missing \/ doc = NoneV

\* on_load, lines 24-27: the registry entries made before the first file
\* that fails to load; r is [ok, i18n, trkeys]
RECURSIVE LoadLanguages(_, _, _)
LoadLanguages(dir, names, r) ==
    IF names = <<>> THEN r
    ELSE IF LoadFails(dir[names[1]]) THEN [r EXCEPT !.ok = FALSE]
    ELSE LoadLanguages(dir, Tail(names),
             [ok |-> TRUE,
              i18n |-> r.i18n @@ (names[1] :> dir[names[1]]),
              trkeys |-> r.trkeys @@ (names[1] :> load_keys(dir[names[1]]))])

get_actual_env_content(k) ==
    get_actual_content(k, DATA_ENV, get_template_text("env", k))

get_actual_i18n_content(k, lf) ==
    get_actual_content(k, DATA_I18N[lf], get_template_text("i18n", k))

\* replace_text_in_file without the early return of line 211: the file is
\* rewritten even when old_text does not occur in it
replace_text_in_file_always_writes(fs, path, new_text, old_text) ==
    IF path \notin DOMAIN fs
    THEN [files |-> fs, wrote |-> FALSE, exit |-> 0]
    ELSE IF ~ Occurs(s_html, lower(PathSuffix(path)))
    THEN [files |-> fs, wrote |-> FALSE, exit |-> 255]
    ELSE [files |-> [fs EXCEPT ![path] = replace(fs[path], old_text, new_text)],
          wrote |-> TRUE, exit |-> 0]

\* replace_text_in_file on the file system fs
replace_text_in_file(fs, path, new_text, old_text) ==
    IF path \notin DOMAIN fs
    THEN [files |-> fs, wrote |-> FALSE, exit |-> 0]
    ELSE IF ~ Occurs(s_html, lower(PathSuffix(path)))
    THEN [files |-> fs, wrote |-> FALSE, exit |-> 255]
    ELSE IF ~ Occurs(old_text, fs[path])
    THEN [files |-> fs, wrote |-> FALSE, exit |-> 0]
    ELSE [files |-> [fs EXCEPT ![path] = replace(fs[path], old_text, new_text)],
          wrote |-> TRUE, exit |-> 0]

\* on_user_input without the membership test
IsSupported_unchecked(u, lang_list) == TRUE

\* on_user_input, line 36
IsSupported(u, lang_list) == u \in Range(lang_list)

\* on_user_input, line 40
CopiedFileName(u) ==
    replace(HTML_TEMPLATE_FILE_NAME, s_template, get_string_removed_dot_and_after(u))

\* a copy that only needs its source and overwrites an identical target
CopyRaises_same_path_allowed(fs, src, dst) == src \notin DOMAIN fs

\* on_user_input, line 44: pathlib's Path.copy raises OSError when source
\* and target are the same path, and FileNotFoundError without a source
CopyRaises(fs, src, dst) == src = dst \/ src \notin DOMAIN fs

\* main with the two for loops in the other order
main_passes_i18n_first == <<"i18n", "env">>

\* main: the order of the two for loops
main_passes == <<"env", "i18n">>

NextPass(p) == IF p = main_passes[1] THEN main_passes[2] ELSE "substituted"

\* main, line 54: runtime.DATA_I18N_TRKEYS[lang_file] raises KeyError for an
\* unknown language
EnterPass(p, lf) ==
    IF p = "i18n" /\ lf \notin DOMAIN DATA_I18N_TRKEYS THEN "crashed" ELSE p

PassKeys(p) == IF p = "env" THEN DATA_ENV_KEYS ELSE DATA_I18N_TRKEYS[lang_file]

ActualContent(p, k) ==
    IF p = "env" THEN get_actual_env_content(k)
    ELSE get_actual_i18n_content(k, lang_file)

(***************************************************************************)
(* One run of main.py: the __main__ block                                  *)
(***************************************************************************)

NoDirectCalls ==
    /\ data = NoneV
    /\ keys = <<>>
    /\ key = <<>>
    /\ fallback = <<>>
    /\ result = <<>>
    /\ op = "none"

Init ==
    /\ NoDirectCalls
    /\ pc = "start"
    /\ lang_dir \in LangDirs
    /\ env_yml \in EnvDocs
    /\ template_parts \in Templates
    /\ files = (HTML_TEMPLATE_FILE_NAME :> Flatten(template_parts))
    /\ LANG_LIST = <<>>
    /\ DATA_I18N = <<>>
    /\ DATA_I18N_TRKEYS = <<>>
    /\ DATA_ENV = NoneV
    /\ DATA_ENV_KEYS = <<>>
    /\ HTML_COPIED_FILE_NAME = index_html
    /\ user_input = <<>>
    /\ lang_file = <<>>
    /\ loop_i = 0
    /\ run_no = 0
    /\ run_start = <<>>
    /\ run_writes = 0
    /\ exit_status = 0

on_load ==
    /\ pc = "start"
    /\ LET names == get_languages(lang_dir)
           r == LoadLanguages(lang_dir, names,
                              [ok |-> TRUE, i18n |-> <<>>, trkeys |-> <<>>])
           ok == r.ok /\ ~ LoadFails(env_yml)
       IN  /\ LANG_LIST' = names
           /\ DATA_I18N' = r.i18n
           /\ DATA_I18N_TRKEYS' = r.trkeys
           /\ DATA_ENV' = IF ok THEN env_yml ELSE DATA_ENV
           /\ DATA_ENV_KEYS' = IF ok THEN load_keys(env_yml) ELSE DATA_ENV_KEYS
           /\ pc' = IF ok THEN "loaded" ELSE "load_failed"
           /\ exit_status' = IF ok THEN 0 ELSE 1
    /\ UNCHANGED <<utilVars, lang_dir, env_yml, files, HTML_COPIED_FILE_NAME,
                   user_input, lang_file, loop_i, run_no, run_start,
                   run_writes, template_parts>>

\* on_user_input, then the call of main() up to its first loop
on_user_input ==
    /\ pc = "loaded"
    /\ \E u \in UserInputs :
        /\ user_input' = u
        /\ IF ~ IsSupported(u, LANG_LIST)
           THEN /\ pc' = "exited"
                /\ exit_status' = 255
                /\ UNCHANGED <<files, HTML_COPIED_FILE_NAME, lang_file, loop_i,
                               run_no, run_start, run_writes>>
           ELSE /\ HTML_COPIED_FILE_NAME' = CopiedFileName(u)
                /\ IF CopyRaises(files, HTML_TEMPLATE_FILE_NAME, CopiedFileName(u))
                   THEN /\ pc' = "crashed"
                        /\ exit_status' = 1
                        /\ UNCHANGED <<files, lang_file, loop_i, run_no,
                                       run_start, run_writes>>
                   ELSE /\ files' = (CopiedFileName(u) :> files[HTML_TEMPLATE_FILE_NAME])
                                    @@ files
                        /\ lang_file' = u
                        /\ pc' = EnterPass(main_passes[1], u)
                        /\ exit_status' = IF pc' = "crashed" THEN 1 ELSE 0
                        /\ loop_i' = 1
                        /\ run_no' = 1
                        /\ run_start' = files[HTML_TEMPLATE_FILE_NAME]
                        /\ run_writes' = 0
    /\ UNCHANGED <<utilVars, lang_dir, env_yml, LANG_LIST, DATA_I18N,
                   DATA_I18N_TRKEYS, DATA_ENV, DATA_ENV_KEYS, template_parts>>

\* main: one iteration of the running for loop
main_replace ==
    /\ pc \in Range(main_passes)
    /\ loop_i <= Len(PassKeys(pc))
    /\ LET i == PassKeys(pc)[loop_i]
           old_text == get_template_text(pc, i)
           new_text == ActualContent(pc, i)
           r == replace_text_in_file(files, HTML_COPIED_FILE_NAME, new_text, old_text)
       IN  /\ files' = r.files
           /\ run_writes' = IF r.wrote THEN run_writes + 1 ELSE run_writes
           /\ IF r.exit # 0
              THEN /\ pc' = "exited"
                   /\ exit_status' = r.exit
                   /\ UNCHANGED loop_i
              ELSE /\ loop_i' = loop_i + 1
                   /\ UNCHANGED <<pc, exit_status>>
    /\ UNCHANGED <<utilVars, lang_dir, env_yml, LANG_LIST, DATA_I18N,
                   DATA_I18N_TRKEYS, DATA_ENV, DATA_ENV_KEYS,
                   HTML_COPIED_FILE_NAME, user_input, lang_file, run_no,
                   run_start, template_parts>>

\* main: a for loop is exhausted (lines 53 and 59)
main_pass_done ==
    /\ pc \in Range(main_passes)
    /\ loop_i > Len(PassKeys(pc))
    /\ pc' = EnterPass(NextPass(pc), lang_file)
    /\ exit_status' = IF pc' = "crashed" THEN 1 ELSE exit_status
    /\ loop_i' = 1
    /\ UNCHANGED <<utilVars, lang_dir, env_yml, files, LANG_LIST, DATA_I18N,
                   DATA_I18N_TRKEYS, DATA_ENV, DATA_ENV_KEYS,
                   HTML_COPIED_FILE_NAME, user_input, lang_file, run_no,
                   run_start, run_writes, template_parts>>

\* main(lang_file) called once more on the output file it has just produced
main_again ==
    /\ pc = "substituted"
    /\ run_no < MaxRuns
    /\ pc' = EnterPass(main_passes[1], lang_file)
    /\ loop_i' = 1
    /\ run_no' = run_no + 1
    /\ run_start' = files[HTML_COPIED_FILE_NAME]
    /\ run_writes' = 0
    /\ UNCHANGED <<utilVars, lang_dir, env_yml, files, LANG_LIST, DATA_I18N,
                   DATA_I18N_TRKEYS, DATA_ENV, DATA_ENV_KEYS,
                   HTML_COPIED_FILE_NAME, user_input, lang_file,
                   template_parts, exit_status>>

\* __main__, lines 67-70: the answer is "y" or "yes" in any case
finish_rename ==
    /\ pc = "substituted"
    /\ pc' = "finished"
    /\ files' = (index_html :> files[HTML_COPIED_FILE_NAME])
                @@ [n \in DOMAIN files \ {HTML_COPIED_FILE_NAME} |-> files[n]]
    /\ UNCHANGED <<utilVars, lang_dir, env_yml, LANG_LIST, DATA_I18N,
                   DATA_I18N_TRKEYS, DATA_ENV, DATA_ENV_KEYS,
                   HTML_COPIED_FILE_NAME, user_input, lang_file, loop_i,
                   run_no, run_start, run_writes, template_parts, exit_status>>

\* __main__, lines 67-70: any other answer
finish_keep ==
    /\ pc = "substituted"
    /\ pc' = "finished"
    /\ UNCHANGED <<utilVars, lang_dir, env_yml, files, LANG_LIST, DATA_I18N,
                   DATA_I18N_TRKEYS, DATA_ENV, DATA_ENV_KEYS,
                   HTML_COPIED_FILE_NAME, user_input, lang_file, loop_i,
                   run_no, run_start, run_writes, template_parts, exit_status>>

Next ==
    \/ on_load
    \/ on_user_input
    \/ main_replace
    \/ main_pass_done
    \/ main_again
    \/ finish_rename
    \/ finish_keep

Spec == Init /\ [][Next]_vars

(***************************************************************************)
(* Properties of the flattener and the resolver                            *)
(***************************************************************************)

\* every node of a nested map with the path of map keys leading to it
RECURSIVE NodesUnder(_, _)
NodesUnder(path, v) ==
    {<<path, v>>} \cup
    (IF v.tag = "map"
     THEN UNION {NodesUnder(Append(path, k), v.val[k]) : k \in DOMAIN v.val}
     ELSE {})

Nodes(d) == NodesUnder(<<>>, d)

\* the leaves: the nodes that are not nested maps
LeafNodes(d) == {n \in Nodes(d) : n[2].tag # "map"}

\* the textual form of a leaf: the string itself, str(value) otherwise
TextForm(v) == IF v.tag = "str" THEN v.val ELSE PyStr(v)

IsSorted(s) == \A i, j \in DOMAIN s : i < j => StrLess(s[i], s[j])

\* C1 (as claimed): resolving a key that load_keys produced returns the
\* textual form of every leaf the key was emitted for, never the fallback.
C1_RoundTrip ==
    (op = "get_actual_content" /\ key \in Range(load_keys(data)))
        => \A n \in LeafNodes(data) :
               LeafKey(n[1]) = key => result = TextForm(n[2])

\* C8 (as claimed): a key whose segment list is empty resolves to the
\* fallback.
C8_EmptyKeyIsFallback ==
    (op = "get_actual_content" /\ split_key_by_dot(key) = <<>>)
        => result = fallback

\* C4: a non-empty key whose segment path leads to no node of the map, or to
\* a null leaf, resolves to the fallback.
C4_FallbackTotality ==
    (op = "get_actual_content" /\ key # <<>>)
        => LET segs == split_key_by_dot(key)
           IN  /\ (~ \E n \in Nodes(data) : n[1] = segs) => result = fallback
               /\ (<<segs, NoneV>> \in Nodes(data)) => result = fallback

C4_Witness ==
    /\ op = "get_actual_content"
    /\ key = <<"a", ".", "b", ".", "b">>
    /\ <<<<s_a, s_b>>, StrV(s_Y)>> \in Nodes(data)
    /\ result = fallback

\* C7 (as claimed): sorted, duplicate-free, and as many keys as leaves.
C7_OneKeyPerLeaf ==
    op = "load_keys"
        => /\ IsSorted(keys)
           /\ Range(keys) = {LeafKey(n[1]) : n \in LeafNodes(data)}
           /\ Len(keys) = Cardinality(LeafNodes(data))

\* C7 (amended): sorted, duplicate-free, and exactly the merged keys of the
\* leaves, falsy leaves included; leaves whose paths merge to the same
\* dotted key share one entry.
C7_Flattening ==
    op = "load_keys"
        => /\ IsSorted(keys)
           /\ Range(keys) = {LeafKey(n[1]) : n \in LeafNodes(data)}
           /\ Len(keys) <= Cardinality(LeafNodes(data))
           /\ (\A n \in Nodes(data) : n[2].tag = "map") => keys = <<>>

C7_Witness ==
    /\ op = "load_keys"
    /\ <<<<s_a>>, StrV(<<>>)>> \in Nodes(data)
    /\ <<<<s_sa>>, BoolV(FALSE)>> \in Nodes(data)
    /\ keys = <<s_a>>

(***************************************************************************)
(* Properties of a run                                                     *)
(***************************************************************************)

TokensOf(mode, ks) == {get_template_text(mode, k) : k \in Range(ks)}

\* the placeholder tokens of the environment keys and the selected
\* language's keys
LoadedTokens ==
    TokensOf("env", DATA_ENV_KEYS) \cup TokensOf("i18n", DATA_I18N_TRKEYS[lang_file])

NoLoadedTokens(c) == \A t \in LoadedTokens : ~ Occurs(t, c)

\* what one loop iteration of main does to the contents of the output file
SubstituteKey(c, mode, k) ==
    IF Occurs(get_template_text(mode, k), c)
    THEN replace(c, get_template_text(mode, k), ActualContent(mode, k))
    ELSE c

\* a whole pass over the keys ks, in the order of ks
RECURSIVE RunPass(_, _, _)
RunPass(c, mode, ks) ==
    IF ks = <<>> THEN c
    ELSE RunPass(SubstituteKey(c, mode, ks[1]), mode, Tail(ks))

KeyOrders(s) ==
    {[i \in DOMAIN s |-> s[f[i]]] :
        f \in {g \in [DOMAIN s -> DOMAIN s] : \A i, j \in DOMAIN s : g[i] = g[j] => i = j}}

PieceLoaded(p) ==
    \/ p.ns = "env" /\ p.key \in Range(DATA_ENV_KEYS)
    \/ p.ns = "i18n" /\ p.key \in Range(DATA_I18N_TRKEYS[lang_file])

\* both passes of main on the contents c
RunMain(c) ==
    RunPass(RunPass(c, "env", DATA_ENV_KEYS), "i18n", DATA_I18N_TRKEYS[lang_file])

\* the loaded keys with their namespace
LoadedKeys ==
    {<<"env", k>> : k \in Range(DATA_ENV_KEYS)}
        \cup {<<"i18n", k>> : k \in Range(DATA_I18N_TRKEYS[lang_file])}

\* c with every occurrence of a loaded key's placeholder token replaced by
\* that key's resolved text, all keys at once (the longest token where two
\* start at the same place)
RECURSIVE AllReplaced(_)
AllReplaced(c) ==
    IF c = <<>> THEN <<>>
    ELSE LET here == {m \in LoadedKeys : StartsWith(c, get_template_text(m[1], m[2]))}
         IN  IF here = {} THEN <<Head(c)>> \o AllReplaced(Tail(c))
             ELSE LET m == CHOOSE x \in here :
                               \A y \in here : Len(y[2]) <= Len(x[2])
                      n == Len(get_template_text(m[1], m[2]))
                  IN  ActualContent(m[1], m[2])
                          \o AllReplaced(SubSeq(c, n + 1, Len(c)))

FirstRenderDone == pc = "substituted" /\ run_no = 1

\* the key of the i18n step about to run has as value the placeholder token
\* of a loaded environment key
EnvTokenValued(k) ==
    /\ k \in DOMAIN DATA_I18N[lang_file].val
    /\ DATA_I18N[lang_file].val[k] \in
           {StrV(t) : t \in TokensOf("env", DATA_ENV_KEYS)}

C3_CompleteSubstitution ==
    FirstRenderDone =>
        /\ files[HTML_COPIED_FILE_NAME] = AllReplaced(Flatten(template_parts))
        /\ NoLoadedTokens(files[HTML_COPIED_FILE_NAME])

\* C5: a typed identifier outside LANG_LIST ends the run with status 255 and
\* the working directory as it was; the passes run only for a member.
C5_InvalidSelectionAborts ==
    /\ (pc \notin {"start", "loaded", "load_failed"}
            /\ user_input \notin Range(LANG_LIST))
        => /\ pc = "exited"
           /\ exit_status = 255
           /\ files = (HTML_TEMPLATE_FILE_NAME :> Flatten(template_parts))
           /\ run_no = 0
           /\ run_writes = 0
    /\ pc \in {"env", "i18n", "substituted", "finished"}
        => /\ lang_file \in Range(LANG_LIST)
           /\ lang_file = user_input

C5_Witness ==
    /\ pc = "exited"
    /\ exit_status = 255
    /\ user_input = a_txt
    /\ a_txt \in DOMAIN lang_dir
    /\ LANG_LIST # <<>>

\* C6: a further call of main on a file without any loaded placeholder
\* leaves the file as it is and writes nothing.
C6_Idempotence ==
    (run_no >= 2 /\ pc \in {"env", "i18n", "substituted"}
         /\ NoLoadedTokens(run_start))
        => /\ files[HTML_COPIED_FILE_NAME] = run_start
           /\ run_writes = 0

C6_Witness ==
    /\ run_no = 2
    /\ pc = "substituted"
    /\ NoLoadedTokens(run_start)
    /\ run_start # Flatten(template_parts)
    /\ LoadedTokens # {}

\* C9 (as claimed): a pass gives the same file in every processing order of
\* its keys (the claim's reason, that no token of a key list occurs inside
\* another, already fails for the keys t and t2).
C9_OrderIndependent ==
    (pc \in {"env", "i18n"} /\ loop_i = 1)
        => \A ks \in KeyOrders(PassKeys(pc)) :
               RunPass(files[HTML_COPIED_FILE_NAME], pc, ks)
                   = RunPass(files[HTML_COPIED_FILE_NAME], pc, PassKeys(pc))

Selected == pc \notin {"start", "loaded", "load_failed", "exited"}

\* C10 (as claimed): the derived output name differs from the template name
\* for every selectable identifier, and the template keeps its contents.
C10_OutputNameDiffers ==
    /\ Selected => HTML_COPIED_FILE_NAME # HTML_TEMPLATE_FILE_NAME
    /\ files[HTML_TEMPLATE_FILE_NAME] = Flatten(template_parts)

\* C10 (amended): the derived name is the template name exactly for an
\* identifier whose part before the first dot is "template"; the copy then
\* fails and nothing is substituted; the template keeps its contents always.
C10_TemplatePreserved ==
    /\ Selected =>
        /\ HTML_COPIED_FILE_NAME = HTML_TEMPLATE_FILE_NAME
              <=> get_string_removed_dot_and_after(user_input) = s_template
        /\ HTML_COPIED_FILE_NAME = HTML_TEMPLATE_FILE_NAME
              => pc = "crashed" /\ run_no = 0 /\ run_writes = 0
    /\ HTML_TEMPLATE_FILE_NAME \in DOMAIN files
    /\ files[HTML_TEMPLATE_FILE_NAME] = Flatten(template_parts)

C10_Witness ==
    /\ pc = "finished"
    /\ run_writes > 0
    /\ HTML_COPIED_FILE_NAME # HTML_TEMPLATE_FILE_NAME
    /\ index_html \in DOMAIN files
    /\ files[index_html] # files[HTML_TEMPLATE_FILE_NAME]

====
